---- MODULE Spec2Model ----
(***************************************************************************)
(* clean() of src/data/make_dataset.py: the citation table is read, the    *)
(* make aliases are replaced, the code/description columns are reconciled, *)
(* rows with neither value are removed, the static violation aliases are   *)
(* applied, the violation_code column is dropped and the table is written. *)
(***************************************************************************)
EXTENDS Integers, Sequences, FiniteSets, TLC

\* Largest number of rows of an input table.
MaxRows == 2
\* Largest number of rows of references/make.csv.
MaxMakes == 2

\* A missing cell (np.nan): read_csv reads an empty field as missing.
nan == ""

\* The legacy code compared against in code_swap_filter.
Sentinel == "000"

\* The static table of misspelled or legacy codes and their descriptions.
viol_aliases ==
       "22500B" :> "PARKED IN CROSSWALK"
    @@ "22507.8B" :> "DISABLED PARKING/OBS"
    @@ "80.69A+" :> "STOP/STAND PROHIBIT"
    @@ "8056E2" :> "YELLOW ZONE"
    @@ "22507.8B-" :> "DISABLED PARKING/OBSTRUCT ACCESS"
    @@ "80.61" :> "STANDNG IN ALLEY"
    @@ "80.66.1D" :> "RESTRICTED TAXI ZONE"
    @@ "80.54" :> "OVERNIGHT PARKING"
    @@ "8061#" :> "STANDING IN ALLEY"
    @@ "80.69.1C" :> "PK TRAILER"
    @@ "225001" :> "PARK FIRE LANE"
    @@ "80.69D" :> "VEH/LOAD OVR 6' HIGH"
    @@ "22500.1+" :> "PARKED IN FIRE LANE"
    @@ "22507.8A-" :> "DISABLED PARKING/NO DP ID"
    @@ "557" :> "8755*"
    @@ "80.69BS" :> "NO PARK/STREET CLEAN"
    @@ "22502E" :> "18 IN. CURB/1 WAY"
    @@ "5200A" :> "DSPLYPLATE A"
    @@ "22507.8A" :> "DISABLED PARKING/NO"
    @@ "80692*" :> "COMVEH RES/OV TM B-2"
    @@ "553" :> "80581"
    @@ "22511.57B" :> "DP- RO NOT PRESENT"
    @@ "80.69.4" :> "PK OVERSIZ"
    @@ "80.75.1" :> "AUDIBLE ALARM"
    @@ "5204A-" :> "DISPLAY OF TABS"
    @@ "80.69C" :> "PARKED OVER TIME LIMIT"
    @@ "80713" :> "PARKING/FRONT YARD 1"
    @@ "22500K" :> "PARKED ON BRIDGE"
    @@ "569" :> "2251157A"
    @@ "88.03A" :> "OUTSIDE LINES/METER"
    @@ "22522-" :> "3 FT. SIDEWALK RAMP"
    @@ "22507.8C1" :> "DISABLED PARKING/BOUNDARIES"
    @@ "8709D" :> "LOADING ZONES"
    @@ "88.66" :> "ELECTRIC CHARGING STATION SPACES"
    @@ "8070" :> "PARK IN GRID LOCK ZN"
    @@ "88.63B+" :> "OFF STR/OVERTIME/MTR"
    @@ "88.53" :> "OFF STR MTR/OUT LINE"
    @@ "80692" :> "COMVEH RES/OV TM LMT"
    @@ "17104H" :> "LOAD/UNLOAD ONLY"
    @@ "80.58.1" :> "CARSHARE PARKING"
    @@ "80.69AP+" :> "NO STOP/STANDING"
    @@ "8056E1" :> "WHITE ZONE"
    @@ "6344K2" :> "NO PARKING BETWEEN POSTED HOURS"
    @@ "80.58L" :> "PREFERENTIAL PARKING"
    @@ "80.53" :> "PARKED IN PARKWAY"
    @@ "8069BS" :> "NO PARK/STREET CLEAN"
    @@ "556" :> "8755"
    @@ "5201" :> "POSITION OF PLATES"
    @@ "8936" :> "RED CURB"
    @@ "80.56E4+" :> "RED ZONE"
    @@ "8061" :> "STNDNG IN ALLEY"
    @@ "8056" :> "YELLOW ZONE"
    @@ "80.72" :> "RED FLAG DAY"
    @@ "22507A" :> "OVERSIZED VEHICLE PARKING TOPHAM ST"
    @@ "22500L-" :> "DP-BLKNG ACCESS RAMP"
    @@ "80661D" :> "RESTRICTED ZONE"
    @@ "80.69AA+" :> "NO STOP/STAND"
    @@ "22500H" :> "DOUBLE PARKING"
    @@ "572521D" :> "MT FIRE RD NO PERMIT"
    @@ "87.55" :> "FOR SALE SIGN"
    @@ "8813B" :> "METER EXPIRED"
    @@ "031" :> "22523A"
    @@ "5202" :> "PERIOD OF DISPLAY"
    @@ "8069B" :> "NO PARKING"
    @@ "22511.1B" :> "PRK IN ELEC VEH SPACE"
    @@ "805.6" :> "WHITE ZONE"
    @@ "8056E4" :> "RED ZONE"
    @@ "22502A" :> "18 IN. CURB/2 WAY"
    @@ "89391C" :> "EXCEED TIME LMT"
    @@ "85.01" :> "REPAIRING VEH/STREET"
    @@ "8069C" :> "PKD OVER TIME LIMIT"
    @@ "80732" :> "EXCEED 72 HOURS"
    @@ "8606" :> "PK OTSD PSTD AR"
    @@ "8603" :> "PK IN PROH AREA"
    @@ "89391A" :> "STOP/STAND PROHB"
    @@ "8053" :> "PKD IN/ON PARKWAY"
    @@ "8939" :> "WHITE CURB"
    @@ "86.03" :> "CITY PARK/PROHIB"
    @@ "80714#" :> "PRIVATE PROPERTY"
    @@ "80.69.2" :> "COMM VEH OVER TIME LIMIT"
    @@ "572521E" :> "OBST FIRE RD"
    @@ "045" :> "4000"
    @@ "80.70" :> "NO STOPPING/ANTI-GRIDLOCK ZONE"
    @@ "8940" :> "PARKING AREA"
    @@ "21113" :> "PRKG PUBL GRNDS"
    @@ "80714" :> "PRIVATE PROPERTY"
    @@ "80.49+" :> "18 IN/CURB/COMM VEH"
    @@ "5204A" :> "EXPIRED TAGS"
    @@ "8051A" :> "LEFT SIDE OF ROADWAY"
    @@ "80692**" :> "COMVEH RES/OV TM C-3"
    @@ "22507.8C2" :> "DISABLED PARKING/CROSS HATCH"
    @@ "80.7" :> "NO STOPPING/ANTI-GRIDLOCK ZONE"
    @@ "225078A" :> "HANDICAP/NO DP ID"
    @@ "88.64A" :> "TIME LIMIT/CITY LOT"
    @@ "8501" :> "REPAIRING VEH/STREET"
    @@ "80.73.2" :> "EXCEED 72HRS-ST"
    @@ "22511.56B" :> "DP-REFUSE ID"
    @@ "8863B" :> "OFF STR/OVERTIME/MTR"
    @@ "80.56E2" :> "YELLOW ZONE"
    @@ "8056E3" :> "GREEN ZONE"
    @@ "80.71.3" :> "PARKING/FRONT YARD"
    @@ "030" :> "22522"
    @@ "8069A" :> "NO STOPPING/STANDING"
    @@ "8058L" :> "PREF PARKING"
    @@ "88.13B+" :> "METER EXP."
    @@ "22500A" :> "WITHIN INTERSECTION"
    @@ "22507.8C" :> "DISABLED PARKING/CRO"
    @@ "80.54H1" :> "OVNIGHT PRK W/OUT PE"
    @@ "89355C" :> "ILGL EXT OF TM"
    @@ "2251156B" :> "MISUSE/DP PRIVILEGE"
    @@ "21211B" :> "BLK BIKE PATH OR LANE"
    @@ "4000A1" :> "NO EVIDENCE OF REG"
    @@ "22511.57" :> "DP- RO NOT PRESENT"
    @@ "22500C" :> "SAFETY ZONE/CURB"
    @@ "225078C2" :> "HANDICAP/CROSS HATCH"
    @@ "6344K7" :> "PARKING OUTSIDE PARKING STALLS"
    @@ "86.06" :> "CITY PARK/PROHIB"
    @@ "22500E" :> "BLOCKING DRIVEWAY"
    @@ "22500I-" :> "PARKED IN BUS ZONE"
    @@ "80.69.1A" :> "COMM TRAILER/22 FT."
    @@ "225078C1" :> "HANDICAP/ON LINE"
    @@ "80691C" :> "PARKING UNHITCHED TR"
    @@ "22515" :> "UNATT/MOTOR ON"
    @@ "5200" :> "DISPLAY OF PLATES"
    @@ "17104C" :> "R/PRIV PARKING AREA"
    @@ "22526" :> "BLOCKING INTERSECTION"
    @@ "80.56E1" :> "WHITE ZONE"
    @@ "80691A" :> "COMM TRAILER/22 FT."
    @@ "571" :> "2251157C"
    @@ "8709B" :> "PARK-PSTD AREAS"
    @@ "22514" :> "FIRE HYDRANT"
    @@ "029" :> "22521"
    @@ "80.69B" :> "NO PARKING"
    @@ "8803A" :> "PK OUTSD SPACE"
    @@ "8049" :> "WRG SD/NOT PRL"
    @@ "22500F" :> "PARKED ON SIDEWALK"
    @@ "8072" :> "PARK RED FLAG DAY"
    @@ "80.74" :> "CLEANING VEH/STREET"
    @@ "8074" :> "CLEANING VEH/STREET"
    @@ "8069AP" :> "NO STOP/STAND PM"
    @@ "8073C" :> "CATERING/CENTER CITY"
    @@ "8709K" :> "PK OVR PNTD LNS"
    @@ "80.56E3" :> "GREEN ZONE"
    @@ "8943" :> "PARK IN XWALK"
    @@ "22511.57C" :> "DP-ALTERED"
    @@ "017" :> "22502"
    @@ "21113A+" :> "PUBLIC GROUNDS"
    @@ "80731" :> "STORING VEH/ON STR"
    @@ "6344C" :> "COMMERCIAL - UNDESIG"
    @@ "225078B" :> "HANDICPD/BLOCKING"
    @@ "80.71.4" :> "PRIVATE PROPERTY"
    @@ "8069AA" :> "NO STOP/STAND AM"
    @@ "6344K8" :> "SIGN POSTED - NO PARKING"

VARIABLES
    raw,                \* the rows of target_file, as read
    make_df,            \* the rows of references/make.csv, alias already split
    df,                 \* the data frame clean() works on
    same_codes,         \* values found in both columns
    code_swap_filter,   \* row label -> whether the row is rewritten
    pc                  \* the statement clean() has reached

vars == <<raw, make_df, df, same_codes, code_swap_filter, pc>>

----------------------------------------------------------------------------
\* Input tables.

\* Cell values of the code and description columns of the sampled tables.
CodeValues == {nan, Sentinel, "8056", "YELLOW ZONE", "OTHR"}

\* Cell values of the make column of the sampled tables.
MakeValues == {"TOYT", "TOYO", "TOYOTA"}

\* Rows of make.csv: a canonical make and its alias spellings.
MakeEntries ==
    [make : {"TOYOTA", "TOYO"},
     alias : {{"TOYT"}, {"TOYT", "TOYO"}, {"TOYOTA"}}]

SeqsUpTo(S, n) == UNION {[1..k -> S] : k \in 0..n}

\* Tables whose code and description cells vary, under a few make tables
\* (one of them lists a spelling that also occurs outside the make column).
ReconRows == [make : {"TOYT"}, violation_code : CodeValues,
              violation_description : CodeValues]
ReconMakeTables ==
    { <<>>,
      <<[make |-> "TOYOTA", alias |-> {"TOYT", "TOYO"}]>>,
      <<[make |-> "OTHER", alias |-> {"OTHR"}]>> }

\* Tables whose make cells vary, under every make table up to MaxMakes rows;
\* an alias spelling also occurs outside the make column.
MakeRows == [make : MakeValues, violation_code : {"8056"},
             violation_description : {"OTHR", "TOYT"}]

\* read_csv: the rows in file order under a RangeIndex. label is the row's
\* position in the input file; it is never read by clean().
ReadCsv(cells) ==
    [i \in 1..Len(cells) |->
        [label |-> i - 1, index |-> i - 1, make |-> cells[i].make,
         violation_code |-> cells[i].violation_code,
         violation_description |-> cells[i].violation_description]]

----------------------------------------------------------------------------
\* The operations of clean().

isna(v) == v = nan

\* DataFrame.replace(to_replace, value): every cell of every column that
\* equals one of to_replace becomes value; the index is not a column.
Replace(frame, to_replace, value) ==
    LET R(c) == IF c \in to_replace THEN value ELSE c
    IN  [i \in 1..Len(frame) |->
            [frame[i] EXCEPT !.make = R(@),
                             !.violation_code = R(@),
                             !.violation_description = R(@)]]

\* Variant: the rows of make_df applied last to first.
RECURSIVE ReplaceAliases_reversed(_, _, _)
ReplaceAliases_reversed(frame, makes, k) ==
    IF k > Len(makes) THEN frame
    ELSE Replace(ReplaceAliases_reversed(frame, makes, k + 1),
                 makes[k].alias, makes[k].make)

\* for _, data in make_df.iterrows(): df = df.replace(data.alias, data.make)
RECURSIVE ReplaceAliases(_, _, _)
ReplaceAliases(frame, makes, k) ==
    IF k > Len(makes) THEN frame
    ELSE ReplaceAliases(Replace(frame, makes[k].alias, makes[k].make),
                        makes, k + 1)

Column(frame, col) == {frame[i][col] : i \in 1..Len(frame)}

\* Variant: the union of the two columns in place of their intersection.
SameCodes_union(frame) ==
    Column(frame, "violation_code") \cup Column(frame, "violation_description")

\* set(df.violation_code).intersection(set(df.violation_description)); the
\* missing cells of an object column are one np.nan object, so nan is in the
\* intersection when both columns have a missing cell.
SameCodes(frame) ==
    Column(frame, "violation_code") \cap Column(frame, "violation_description")

\* Variant: the test of the code against "000" left out.
CodeSwapFilter_noSentinel(frame, codes) ==
    [i \in 1..Len(frame) |-> frame[i].violation_description \in codes]

\* Variant: the isin(same_codes) test left out.
CodeSwapFilter_sentinelOnly(frame, codes) ==
    [i \in 1..Len(frame) |-> frame[i].violation_code = Sentinel]

\* df.violation_description.isin(same_codes) | (df.violation_code == "000")
CodeSwapFilter(frame, codes) ==
    [i \in 1..Len(frame) |->
        \/ frame[i].violation_description \in codes
        \/ frame[i].violation_code = Sentinel]

\* Variant: the code moved into the description, the code left empty.
code_swap_reversed(row) ==
    [row EXCEPT !.violation_code = nan,
                !.violation_description = row.violation_code]

\* code_swap applied to one row.
code_swap(row) ==
    [row EXCEPT !.violation_code = row.violation_description,
                !.violation_description = nan]

\* Variant: the rows rewritten one after the other, the shared values taken
\* again from the frame before each row.
RECURSIVE IterSwap(_, _)
IterSwap(frame, i) ==
    IF i > Len(frame) THEN frame
    ELSE IF \/ frame[i].violation_description \in SameCodes(frame)
            \/ frame[i].violation_code = Sentinel
         THEN IterSwap([frame EXCEPT ![i] = code_swap(frame[i])], i + 1)
         ELSE IterSwap(frame, i + 1)

SwapRows_iterative(frame, filter) == IterSwap(frame, 1)

\* df.loc[code_swap_filter, [...]] = df[[...]][code_swap_filter].apply(code_swap, axis=1)
SwapRows(frame, filter) ==
    [i \in 1..Len(frame) |->
        IF filter[i] THEN code_swap(frame[i]) ELSE frame[i]]

\* Variant: the filtered frame not assigned back, so every row is kept.
KeepRow_all(row) == TRUE

\* Variant: | in place of &, so a row missing either value is removed.
KeepRow_either(row) ==
    ~(isna(row.violation_code) \/ isna(row.violation_description))

\* The row mask of df[~(code.isna() & description.isna())].
KeepRow(row) ==
    ~(isna(row.violation_code) /\ isna(row.violation_description))

DropEmptyRows(frame) == SelectSeq(frame, KeepRow)

\* Variant: only a missing description is filled in.
CorrectRow_fillMissing(row) ==
    IF row.violation_code \in DOMAIN viol_aliases
          /\ isna(row.violation_description)
    THEN [row EXCEPT !.violation_description = viol_aliases[row.violation_code]]
    ELSE row

\* Variant: description = code.map(viol_aliases), which empties the
\* description of every row whose code is no key.
CorrectRow_map(row) ==
    IF row.violation_code \in DOMAIN viol_aliases
    THEN [row EXCEPT !.violation_description = viol_aliases[row.violation_code]]
    ELSE [row EXCEPT !.violation_description = nan]

\* for key in viol_aliases: df.loc[df.violation_code == key, description] = ...
CorrectRow(row) ==
    IF row.violation_code \in DOMAIN viol_aliases
    THEN [row EXCEPT !.violation_description = viol_aliases[row.violation_code]]
    ELSE row

CorrectViolations(frame) == [i \in 1..Len(frame) |-> CorrectRow(frame[i])]

\* df.drop("violation_code"), reset_index(drop=True), reset_index().
Processed(frame) ==
    [i \in 1..Len(frame) |->
        [label |-> frame[i].label, index |-> i - 1, make |-> frame[i].make,
         violation_description |-> frame[i].violation_description]]

----------------------------------------------------------------------------
\* The state machine: one action per statement group of clean().

Init ==
    /\ \/ /\ raw \in {ReadCsv(c) : c \in SeqsUpTo(ReconRows, MaxRows)}
          /\ make_df \in ReconMakeTables
       \/ /\ raw \in {ReadCsv(c) : c \in SeqsUpTo(MakeRows, MaxRows)}
          /\ make_df \in SeqsUpTo(MakeEntries, MaxMakes)
    /\ df = raw
    /\ same_codes = {}
    /\ code_swap_filter = <<>>
    /\ pc = "read"

MakeAliases ==
    /\ pc = "read"
    /\ df' = ReplaceAliases(df, make_df, 1)
    /\ pc' = "aliased"
    /\ UNCHANGED <<raw, make_df, same_codes, code_swap_filter>>

ComputeFilter ==
    /\ pc = "aliased"
    /\ same_codes' = SameCodes(df)
    /\ code_swap_filter' = CodeSwapFilter(df, SameCodes(df))
    /\ pc' = "filtered"
    /\ UNCHANGED <<raw, make_df, df>>

Swap ==
    /\ pc = "filtered"
    /\ df' = SwapRows(df, code_swap_filter)
    /\ pc' = "swapped"
    /\ UNCHANGED <<raw, make_df, same_codes, code_swap_filter>>

DropEmpty ==
    /\ pc = "swapped"
    /\ df' = DropEmptyRows(df)
    /\ pc' = "dropped"
    /\ UNCHANGED <<raw, make_df, same_codes, code_swap_filter>>

Correct ==
    /\ pc = "dropped"
    /\ df' = CorrectViolations(df)
    /\ pc' = "corrected"
    /\ UNCHANGED <<raw, make_df, same_codes, code_swap_filter>>

Write ==
    /\ pc = "corrected"
    /\ df' = Processed(df)
    /\ pc' = "written"
    /\ UNCHANGED <<raw, make_df, same_codes, code_swap_filter>>

Next ==
    \/ MakeAliases
    \/ ComputeFilter
    \/ Swap
    \/ DropEmpty
    \/ Correct
    \/ Write

Spec == Init /\ [][Next]_vars

----------------------------------------------------------------------------
\* Shared vocabulary of the properties below.

\* The frame as it stands after the make-alias loop (line 193), which is
\* the frame same_codes and code_swap_filter are computed from.
AfterAliases == ReplaceAliases(raw, make_df, 1)

AliasKeys == DOMAIN viol_aliases

BothEmpty(row) == row.violation_code = nan /\ row.violation_description = nan

SameShape(f, g) ==
    /\ Len(f) = Len(g)
    /\ \A i \in 1..Len(f) : f[i].label = g[i].label /\ f[i].index = g[i].index

----------------------------------------------------------------------------
\* C1 (as stated): for every swap-eligible row (description in same_codes,
\* or code "000") the swap moves the old violation_code into
\* violation_description and leaves violation_code empty.
C1_CodeMovedIntoDescription ==
    [][pc = "filtered" =>
        \A i \in 1..Len(df) :
            (df[i].violation_description \in same_codes
                \/ df[i].violation_code = "000")
            => /\ df'[i].violation_description = df[i].violation_code
               /\ df'[i].violation_code = nan]_vars

\* C1 (amended): for every swap-eligible row the swap moves the old
\* violation_description into violation_code and leaves
\* violation_description empty; {code "000", description X} becomes
\* {code X, description empty}.
C1_DescriptionMovedIntoCode ==
    [][pc = "filtered" =>
        \A i \in 1..Len(df) :
            (df[i].violation_description \in same_codes
                \/ df[i].violation_code = "000")
            => /\ df'[i].violation_code = df[i].violation_description
               /\ df'[i].violation_description = nan
               /\ df'[i].make = df[i].make]_vars

C1_Witness ==
    /\ pc = "swapped"
    /\ make_df = <<>>
    /\ \E i \in 1..Len(df) :
        /\ raw[i].violation_code = "000"
        /\ raw[i].violation_description = "OTHR"
        /\ df[i].violation_code = "OTHR"
        /\ df[i].violation_description = nan

----------------------------------------------------------------------------
\* C2 (as stated): every row of the final output has a non-empty
\* violation_description.
C2_OutputDescriptionNonEmpty ==
    pc = "written" =>
        \A i \in 1..Len(df) : df[i].violation_description # nan

\* C2 (amended): every row of the final output has a non-empty
\* violation_description or had, when the violation_code column was dropped,
\* a non-empty violation_code that is no key of the violation alias table.
C2_OutputDescriptionOrUnknownCode ==
    [][pc = "corrected" =>
        /\ Len(df') = Len(df)
        /\ \A i \in 1..Len(df) :
            \/ df'[i].violation_description # nan
            \/ /\ df[i].violation_code # nan
               /\ df[i].violation_code \notin AliasKeys]_vars

C2_Witness ==
    /\ pc = "written"
    /\ \E i, j \in 1..Len(df) :
        /\ df[i].violation_description = nan
        /\ df[j].violation_description # nan

----------------------------------------------------------------------------
\* C3 (as stated): every input row whose violation_code is a key of the
\* violation alias table is in the final output with the paired description,
\* whatever its description and the other rows are.
C3_KeyRowAlwaysCorrected ==
    pc = "written" =>
        \A i \in 1..Len(raw) :
            raw[i].violation_code \in AliasKeys
            => \E j \in 1..Len(df) :
                /\ df[j].label = raw[i].label
                /\ df[j].violation_description
                       = viol_aliases[raw[i].violation_code]

\* C3 (amended): every row whose violation_code, after make-alias
\* substitution, is a key of the violation alias table and whose
\* description is not in same_codes is in the final output with the paired
\* description.
C3_UnswappedKeyRowCorrected ==
    pc = "written" =>
        \A i \in 1..Len(raw) :
            (AfterAliases[i].violation_code \in AliasKeys
                /\ AfterAliases[i].violation_description \notin same_codes)
            => \E j \in 1..Len(df) :
                /\ df[j].label = raw[i].label
                /\ df[j].violation_description
                       = viol_aliases[AfterAliases[i].violation_code]

C3_Witness ==
    /\ pc = "written"
    /\ Len(df) > 1
    /\ \E i \in 1..Len(raw) : \E j \in 1..Len(df) :
        /\ raw[i].violation_code = "8056"
        /\ raw[i].violation_description = "OTHR"
        /\ "OTHR" \notin same_codes
        /\ df[j].label = raw[i].label
        /\ df[j].violation_description = "YELLOW ZONE"

----------------------------------------------------------------------------
\* C4 (as stated): after the swap and drop-empty steps, and until the
\* violation_code column is dropped, no row has violation_code "000".
C4_NoSentinelCode ==
    pc \in {"dropped", "corrected"} =>
        \A j \in 1..Len(df) : df[j].violation_code # "000"

\* C4 (amended): after the swap and drop-empty steps, and until the
\* violation_code column is dropped, a row has violation_code "000" only if
\* its violation_description was "000" before the swap; its description is
\* then empty.
C4_SentinelCodeOnlyFromDescription ==
    pc \in {"dropped", "corrected"} =>
        \A j \in 1..Len(df) :
            df[j].violation_code = "000"
            => /\ AfterAliases[df[j].label + 1].violation_description = "000"
               /\ df[j].violation_description = nan

C4_Witness ==
    /\ pc = "dropped"
    /\ \E j \in 1..Len(df) :
        /\ raw[df[j].label + 1].violation_code = "000"
        /\ raw[df[j].label + 1].violation_description \notin same_codes
        /\ df[j].violation_code # "000"
    /\ \E j \in 1..Len(df) : df[j].violation_code = "000"

----------------------------------------------------------------------------
\* C5 (as stated): after the swap step and through the end of cleaning, no
\* non-empty value of the violation_code column occurs in the
\* violation_description column.
C5_NoSharedValue ==
    pc \in {"swapped", "dropped", "corrected"} =>
        \A i, j \in 1..Len(df) :
            df[i].violation_code # nan
            => df[i].violation_code # df[j].violation_description

\* C5 (amended): after the swap step and until the violation-code
\* correction pass, no non-empty value of same_codes (the values the table
\* had in both columns before the swap) occurs in the
\* violation_description column.
C5_NoSameCodeInDescription ==
    pc \in {"swapped", "dropped"} =>
        \A j \in 1..Len(df) :
            df[j].violation_description # nan
            => df[j].violation_description \notin same_codes

C5_Witness ==
    /\ pc = "swapped"
    /\ \E v \in same_codes : v # nan
    /\ \E j \in 1..Len(df) :
        /\ ~code_swap_filter[j]
        /\ df[j].violation_description # nan

----------------------------------------------------------------------------
\* C6: the drop-empty step removes exactly the rows with both
\* violation_code and violation_description empty; afterwards, until the
\* violation_code column is dropped, no row has both empty; and no input row
\* with both empty is in the final output.
C6_EmptyRowsDropped ==
    [][/\ pc = "swapped" =>
            df' = SelectSeq(df, LAMBDA r : ~BothEmpty(r))
       /\ pc' \in {"dropped", "corrected"} =>
            \A j \in 1..Len(df') : ~BothEmpty(df'[j])
       /\ pc' = "written" =>
            \A j \in 1..Len(df') : ~BothEmpty(raw[df'[j].label + 1])]_vars

C6_Witness ==
    /\ pc = "written"
    /\ \E i \in 1..Len(raw) : BothEmpty(raw[i])
    /\ \E j \in 1..Len(df) : df[j].violation_description = nan
    /\ Len(df) < Len(raw)

----------------------------------------------------------------------------
\* Strings listed as an alias by two rows of make_df with different makes.
Listing(s) == {k \in 1..Len(make_df) : s \in make_df[k].alias}

Conflicting(s) ==
    \E i, j \in Listing(s) : make_df[i].make # make_df[j].make

First(S) == CHOOSE k \in S : \A m \in S : k <= m

Columns == {"make", "violation_code", "violation_description"}

Last(S) == CHOOSE k \in S : \A m \in S : m <= k

\* C7 (as stated): a string listed as an alias under two different makes is
\* replaced by the make of the row of make_df that comes later.
C7_LaterEntryWins ==
    pc = "aliased" =>
        \A i \in 1..Len(raw) : \A col \in Columns :
            Conflicting(raw[i][col])
            => df[i][col] = make_df[Last(Listing(raw[i][col]))].make

\* C7 (amended): a string listed as an alias under two different makes is
\* replaced by the make of the earliest row of make_df that lists it,
\* unless that make is itself listed as an alias by a later row.
C7_EarlierEntryWins ==
    pc = "aliased" =>
        \A i \in 1..Len(raw) : \A col \in Columns :
            LET s == raw[i][col]
                f == First(Listing(s))
            IN  (Conflicting(s)
                    /\ \A k \in f + 1..Len(make_df) :
                           make_df[f].make \notin make_df[k].alias)
                => df[i][col] = make_df[f].make

C7_Witness ==
    /\ pc = "aliased"
    /\ \E i \in 1..Len(raw) :
        LET s == raw[i].make
        IN  /\ Conflicting(s)
            /\ raw[i].violation_description = s
            /\ make_df[First(Listing(s))].make
                   # make_df[Last(Listing(s))].make
            /\ \A k \in First(Listing(s)) + 1..Len(make_df) :
                   make_df[First(Listing(s))].make \notin make_df[k].alias
            /\ df[i].make = make_df[First(Listing(s))].make
            /\ df[i].violation_description = df[i].make

----------------------------------------------------------------------------
\* C8: the make-alias pass and the violation-code correction pass keep the
\* number and the order of the rows; the correction pass changes nothing
\* but violation_description, and only on rows whose violation_code is a
\* key of the violation alias table.
C8_PassesKeepRows ==
    [][/\ pc = "read" => SameShape(df, df')
       /\ pc = "dropped" =>
            /\ SameShape(df, df')
            /\ \A i \in 1..Len(df) :
                /\ df'[i].make = df[i].make
                /\ df'[i].violation_code = df[i].violation_code
                /\ (df'[i].violation_description # df[i].violation_description
                       => df[i].violation_code \in AliasKeys)]_vars

C8_Witness ==
    /\ pc = "corrected"
    /\ Len(df) = Len(raw)
    /\ \E i, j \in 1..Len(df) :
        /\ raw[i].make # df[i].make
        /\ df[i].violation_code \in AliasKeys
        /\ raw[i].violation_description # df[i].violation_description
        /\ df[j].violation_code \notin AliasKeys
        /\ df[j].violation_description # nan

----------------------------------------------------------------------------
\* The values of a column, the empty cell left out.
Present(frame, col) == {frame[i][col] : i \in 1..Len(frame)} \ {nan}

NoSentinel(frame) ==
    \A i \in 1..Len(frame) : frame[i].violation_code # "000"

\* C9 (as stated): on a table with no code "000" and no value present in
\* both columns, same_codes, swap and drop-empty leave the table unchanged.
C9_CleanTableUnchanged ==
    pc = "dropped" =>
        ((NoSentinel(AfterAliases)
            /\ Present(AfterAliases, "violation_code")
                   \cap Present(AfterAliases, "violation_description") = {})
         => df = AfterAliases)

\* C9 (amended): on a table with no code "000", no value present in both
\* columns and no empty cell in both columns, same_codes, swap and
\* drop-empty leave the table unchanged.
C9_CleanTableWithoutSharedGapUnchanged ==
    pc = "dropped" =>
        ((NoSentinel(AfterAliases)
            /\ Present(AfterAliases, "violation_code")
                   \cap Present(AfterAliases, "violation_description") = {}
            /\ ~(\E i, j \in 1..Len(AfterAliases) :
                    /\ AfterAliases[i].violation_code = nan
                    /\ AfterAliases[j].violation_description = nan))
         => df = AfterAliases)

C9_Witness ==
    /\ pc = "dropped"
    /\ NoSentinel(AfterAliases)
    /\ Present(AfterAliases, "violation_code")
           \cap Present(AfterAliases, "violation_description") = {}
    /\ Len(df) > 1
    /\ \E i \in 1..Len(df) : df[i].violation_description = nan
    /\ \A i \in 1..Len(df) : df[i].violation_code # nan
    /\ df = AfterAliases

----------------------------------------------------------------------------
\* C10: same_codes is computed once, from the table as it stands after the
\* make-alias pass; the swap rewrites exactly the rows whose description is
\* in it or whose code is "000", and leaves every other row as it was, also
\* a row whose description equals a code only once another row is swapped.
C10_SwapsExactlyTheEligibleRows ==
    [][pc = "filtered" =>
        LET codes == {df[i].violation_code : i \in 1..Len(df)}
                        \cap {df[i].violation_description : i \in 1..Len(df)}
        IN  /\ df = AfterAliases
            /\ same_codes = codes
            /\ Len(df') = Len(df)
            /\ \A i \in 1..Len(df) :
                IF df[i].violation_description \in codes
                      \/ df[i].violation_code = "000"
                THEN /\ df'[i].violation_code = df[i].violation_description
                     /\ df'[i].violation_description = nan
                ELSE df'[i] = df[i]]_vars

C10_Witness ==
    /\ pc = "swapped"
    /\ \E i, j \in 1..Len(df) :
        /\ code_swap_filter[j]
        /\ ~code_swap_filter[i]
        /\ df[i].violation_description # nan
        /\ df[i].violation_description = df[j].violation_code
        /\ df[i] = AfterAliases[i]
    /\ AfterAliases # raw

====
